---------------------------- MODULE Spec2Model ----------------------------
(***************************************************************************)
(* A model of internal/parser/type.go of go-envparser: Type.Parse, which   *)
(* reads a Go source file, walks its syntax tree with ast.Inspect and, for *)
(* the struct type named t.Name, fills t.Package and t.Fields through      *)
(* getFields, isPointer, isArray, getEnvSourceTag and cleanTypeStr.        *)
(*                                                                         *)
(* Go strings the code looks into character by character (type strings,    *)
(* field names, tag literals) are sequences of one-character strings.      *)
(* Identifiers the code only compares (type names, the package name, the   *)
(* file name) are TLA+ strings.                                            *)
(***************************************************************************)
EXTENDS Integers, Sequences, FiniteSets, TLC

VARIABLES
    file,    \* the source file Parse is given: [pkg, decls]
    disk,    \* what ReadFile / ParseFile meet in the current call
    t,       \* the *Type receiver: [FileName, Name, Fields, Package]
    err,     \* the error the last Parse returned ("nil" when none)
    pc,      \* position inside Parse: idle, read, parse, inspect, done
    pos,     \* ast.Inspect's position in the preorder list of nodes
    calls,   \* how many times Parse has been called on t
    prev,    \* t, err and disk at the return of the previous call
    input,   \* the argument of a pure function under SpecStr / SpecFields
    output   \* its result

vars == <<file, disk, t, err, pc, pos, calls, prev, input, output>>

None == "none"

-----------------------------------------------------------------------------
(* Bounds *)

\* longest type string drawn for the string functions
MaxLen == 4
\* most entries of a struct's field list drawn for getFields
MaxEntries == 2
\* most top-level declarations of a file
MaxDecls == 2
\* most calls of Parse on one Type value
MaxCalls == 2

-----------------------------------------------------------------------------
(* Go's strings package, on sequences of characters *)

RECURSIVE TrimLeft(_, _)
\* strings.TrimLeft(s, cutset): s without ALL leading characters that are
\* in cutset (a set of characters, not a prefix)
TrimLeft(s, cutset) ==
    IF s # <<>> /\ Head(s) \in cutset THEN TrimLeft(Tail(s), cutset) ELSE s

RECURSIVE TrimRight(_, _)
TrimRight(s, cutset) ==
    IF s # <<>> /\ s[Len(s)] \in cutset
    THEN TrimRight(SubSeq(s, 1, Len(s) - 1), cutset)
    ELSE s

\* strings.Trim(s, cutset)
Trim(s, cutset) == TrimRight(TrimLeft(s, cutset), cutset)

WhiteSpace == {" ", "\t", "\n", "\r"}

\* the back quote character U+0060, which a TLA+ string literal cannot hold
BackQuote == "BACKQUOTE"
DoubleQuote == "\""

\* strings.TrimSpace(s)
TrimSpace(s) == Trim(s, WhiteSpace)

LowerCase ==
    <<"a","b","c","d","e","f","g","h","i","j","k","l","m",
      "n","o","p","q","r","s","t","u","v","w","x","y","z">>
UpperCase ==
    <<"A","B","C","D","E","F","G","H","I","J","K","L","M",
      "N","O","P","Q","R","S","T","U","V","W","X","Y","Z">>

ToUpperChar(c) ==
    IF \E i \in DOMAIN LowerCase : LowerCase[i] = c
    THEN UpperCase[CHOOSE i \in DOMAIN LowerCase : LowerCase[i] = c]
    ELSE c

\* strings.ToUpper(s)
ToUpper(s) == [i \in DOMAIN s |-> ToUpperChar(s[i])]

-----------------------------------------------------------------------------
(* isPointer, isArray, cleanTypeStr *)

isPointerTrimmed(typeName) ==
    LET c == TrimSpace(typeName)
    IN  Len(c) > 0 /\ c[1] = "*"

\* func isPointer(typeName string) bool
isPointer(typeName) == Len(typeName) > 0 /\ typeName[1] = "*"

\* func isArray(typeName string) bool
isArray(typeName) ==
    Len(typeName) > 2 /\ SubSeq(typeName, 1, 2) = <<"[", "]">>

\* strings.TrimPrefix(s, prefix)
TrimPrefix(s, prefix) ==
    IF Len(s) >= Len(prefix) /\ SubSeq(s, 1, Len(prefix)) = prefix
    THEN SubSeq(s, Len(prefix) + 1, Len(s))
    ELSE s

cleanTypeStrOnePass(typ) ==
    TrimPrefix(TrimPrefix(TrimSpace(typ), <<"*">>), <<"[", "]">>)

\* func cleanTypeStr(typ string) string
cleanTypeStr(typ) ==
    TrimLeft(TrimLeft(TrimSpace(typ), {"*"}), {"[", "]"})

-----------------------------------------------------------------------------
(* Strings used as inputs and in examples *)

sInt == <<"i","n","t">>
sString == <<"s","t","r","i","n","g">>
sByte == <<"b","y","t","e">>
sIo == <<"i","o">>
sWriter == <<"W","r","i","t","e","r">>
sEnv == <<"e","n","v">>
sJson == <<"j","s","o","n">>
sHostName == <<"H","O","S","T","_","N","A","M","E">>
sCustomKey == <<"C","U","S","T","O","M","_","K","E","Y">>
sKey == <<"k","e","y">>
sHost == <<"H","o","s","t">>
sPort == <<"P","o","r","t">>
sTags == <<"T","a","g","s">>
sA == <<"a">>
sB == <<"b">>

-----------------------------------------------------------------------------
(* go/ast type expressions and go/types.ExprString *)

Ident(name) == [kind |-> "Ident", name |-> name]
StarExpr(x) == [kind |-> "StarExpr", x |-> x]
\* len = <<>> for a slice type []T, <<"5">> for an array type [5]T
ArrayType(len, elt) == [kind |-> "ArrayType", len |-> len, elt |-> elt]
SelectorExpr(x, sel) == [kind |-> "SelectorExpr", x |-> x, sel |-> sel]

RECURSIVE ExprString(_)
\* types.ExprString(field.Type): the type as written in the source
ExprString(e) ==
    CASE e.kind = "Ident" -> e.name
      [] e.kind = "StarExpr" -> <<"*">> \o ExprString(e.x)
      [] e.kind = "ArrayType" -> <<"[">> \o e.len \o <<"]">> \o ExprString(e.elt)
      [] e.kind = "SelectorExpr" -> e.x \o <<".">> \o e.sel

-----------------------------------------------------------------------------
(* Struct tags: the literal in the source and reflect.StructTag.Lookup *)

\* key:"value" as written inside a tag
PairText(p) == p.key \o <<":", "\"">> \o p.value \o <<"\"">>

RECURSIVE TagText(_)
\* the tag string of a list of key/value pairs, space separated
TagText(pairs) ==
    IF pairs = <<>> THEN <<>>
    ELSE IF Len(pairs) = 1 THEN PairText(pairs[1])
    ELSE PairText(pairs[1]) \o <<" ">> \o TagText(Tail(pairs))

RECURSIVE Escape(_)
\* the body of an interpreted string literal denoting s
Escape(s) ==
    IF s = <<>> THEN <<>>
    ELSE (IF Head(s) \in {"\"", "\\"} THEN <<"\\", Head(s)>> ELSE <<Head(s)>>)
         \o Escape(Tail(s))

\* ast.BasicLit of a field tag: Value is the literal as written, a raw string
\* literal (between back quotes) or an interpreted string literal (between
\* double quotes, its body escaped); quote and pairs record what it denotes
BasicLit(quote, pairs) ==
    [Value |-> IF quote = BackQuote
               THEN <<BackQuote>> \o TagText(pairs) \o <<BackQuote>>
               ELSE <<DoubleQuote>> \o Escape(TagText(pairs)) \o <<DoubleQuote>>,
     quote |-> quote,
     pairs |-> pairs]

NotFound == [ok |-> FALSE, value |-> <<>>]

RECURSIVE NameEnd(_, _)
\* reflect: for i < len(tag) && tag[i] > ' ' && tag[i] != ':' && tag[i] != '"'
\* (i counts the characters passed)
NameEnd(tag, i) ==
    IF i < Len(tag) /\ tag[i + 1] \notin (WhiteSpace \cup {":", "\""})
    THEN NameEnd(tag, i + 1)
    ELSE i

RECURSIVE QuoteEnd(_, _)
\* reflect: for i < len(tag) && tag[i] != '"' { if tag[i] == '\\' { i++ }; i++ }
QuoteEnd(tag, i) ==
    IF i < Len(tag) /\ tag[i + 1] # "\""
    THEN QuoteEnd(tag, IF tag[i + 1] = "\\" THEN i + 2 ELSE i + 1)
    ELSE i

RECURSIVE UnquoteBody(_)
\* the escapes \" and \\ ; any other escape is not drawn by the inputs
UnquoteBody(s) ==
    IF s = <<>> THEN [ok |-> TRUE, value |-> <<>>]
    ELSE IF Head(s) = "\\"
         THEN IF Len(s) >= 2 /\ s[2] \in {"\"", "\\"}
              THEN LET r == UnquoteBody(SubSeq(s, 3, Len(s)))
                   IN  [ok |-> r.ok, value |-> <<s[2]>> \o r.value]
              ELSE NotFound
         ELSE LET r == UnquoteBody(Tail(s))
              IN  [ok |-> r.ok, value |-> <<Head(s)>> \o r.value]

\* strconv.Unquote of a double-quoted string
Unquote(q) ==
    IF Len(q) >= 2 /\ q[1] = "\"" /\ q[Len(q)] = "\""
    THEN UnquoteBody(SubSeq(q, 2, Len(q) - 1))
    ELSE NotFound

RECURSIVE Lookup(_, _)
\* reflect.StructTag.Lookup(key)
Lookup(tags, key) ==
    LET tag == TrimLeft(tags, {" "})
        i == NameEnd(tag, 0)
    IN  IF tag = <<>> THEN NotFound
        ELSE IF i = 0 \/ i + 1 >= Len(tag) \/ tag[i + 1] # ":" \/ tag[i + 2] # "\""
        THEN NotFound
        ELSE LET name == SubSeq(tag, 1, i)
                 rest == SubSeq(tag, i + 2, Len(tag))
                 j == QuoteEnd(rest, 1)
             IN  IF j >= Len(rest) THEN NotFound
                 ELSE IF key = name
                      THEN Unquote(SubSeq(rest, 1, j + 1))
                      ELSE Lookup(SubSeq(rest, j + 2, Len(rest)), key)

\* func getEnvSourceTag(tags reflect.StructTag, fieldName string) string
getEnvSourceTag(tags, fieldName) ==
    LET r == Lookup(tags, sEnv)
    IN  IF ~r.ok THEN ToUpper(fieldName) ELSE r.value

-----------------------------------------------------------------------------
(* getFields *)

\* an entry of node.Fields.List: Names (none for an embedded field), Type,
\* and Tag, <<>> for a nil Tag or <<lit>> for a tag literal
FieldEntry(names, type, tag) == [Names |-> names, Type |-> type, Tag |-> tag]

\* tags, as getFields reads them from field.Tag
TagsOf(field) ==
    IF field.Tag # <<>> THEN Trim(field.Tag[1].Value, {BackQuote}) ELSE <<>>

\* the Field appended for a field without names
anonField(fieldType, tags) ==
    [Name |-> <<>>,
     Type |-> cleanTypeStr(fieldType),
     EnvTag |-> getEnvSourceTag(tags, fieldType),
     IsPointer |-> isPointer(fieldType),
     IsArray |-> isArray(fieldType)]

\* the Field appended for one name of a field
namedField(fieldName, fieldType, tags) ==
    [Name |-> fieldName,
     Type |-> cleanTypeStr(fieldType),
     IsPointer |-> isPointer(fieldType),
     IsArray |-> isArray(fieldType),
     EnvTag |-> getEnvSourceTag(tags, fieldName)]

entryFieldsFirstNameOnly(field) ==
    IF Len(field.Names) = 0
    THEN <<anonField(ExprString(field.Type), TagsOf(field))>>
    ELSE <<namedField(field.Names[1], ExprString(field.Type), TagsOf(field))>>

\* the records one entry of the field list appends
entryFields(field) ==
    IF Len(field.Names) = 0
    THEN <<anonField(ExprString(field.Type), TagsOf(field))>>
    ELSE [i \in 1..Len(field.Names) |->
            namedField(field.Names[i], ExprString(field.Type), TagsOf(field))]

RECURSIVE getFieldsList(_)
\* the loop over node.Fields.List
getFieldsList(list) ==
    IF list = <<>> THEN <<>>
    ELSE entryFields(Head(list)) \o getFieldsList(Tail(list))

\* func getFields(node *ast.StructType) []Field
getFields(node) == getFieldsList(node.Fields)

StructType(fields) == [kind |-> "StructType", Fields |-> fields]

-----------------------------------------------------------------------------
(* The state of Type.Parse when only a pure function is exercised *)

\* func NewType(name string) *Type
NewType(name) == [FileName |-> "", Name |-> name, Fields |-> <<>>, Package |-> ""]

NoFile == [pkg |-> "", decls |-> <<>>]

ParseIdle ==
    /\ file = NoFile
    /\ disk = None
    /\ t = NewType("")
    /\ err = "nil"
    /\ pc = "idle"
    /\ pos = 0
    /\ calls = 0
    /\ prev = <<>>

parseVars == <<file, disk, t, err, pc, pos, calls, prev>>

-----------------------------------------------------------------------------
(* SpecStr: the Field built from a type string *)

Alphabet == {"*", "[", "]", " ", "5", "b"}

TypeExprs ==
    {Ident(sInt),
     StarExpr(Ident(sInt)),
     StarExpr(StarExpr(Ident(sInt))),
     ArrayType(<<>>, Ident(sString)),
     ArrayType(<<>>, ArrayType(<<>>, Ident(sInt))),
     ArrayType(<<"5">>, Ident(sInt)),
     StarExpr(ArrayType(<<>>, Ident(sByte))),
     ArrayType(<<>>, StarExpr(Ident(sInt))),
     SelectorExpr(sIo, sWriter)}

\* every string over Alphabet of length at most MaxLen, and the renderings
\* of TypeExprs
TypeStrings ==
    UNION {[1..n -> Alphabet] : n \in 0..MaxLen}
        \cup {ExprString(e) : e \in TypeExprs}

InitStr ==
    /\ ParseIdle
    /\ input \in TypeStrings
    /\ output = <<>>

\* the record getFields appends for a field named a of type input, no tag
MakeNamedField ==
    /\ output = <<>>
    /\ output' = <<namedField(sA, input, <<>>)>>
    /\ UNCHANGED <<input, parseVars>>

\* the record getFields appends for an embedded field of type input, no tag
MakeAnonField ==
    /\ output = <<>>
    /\ output' = <<anonField(input, <<>>)>>
    /\ UNCHANGED <<input, parseVars>>

NextStr == MakeNamedField \/ MakeAnonField

SpecStr == InitStr /\ [][NextStr]_vars

-----------------------------------------------------------------------------
(* SpecFields: getFields on a field list *)

Pair(key, value) == [key |-> key, value |-> value]

FieldNames == {<<>>, <<sPort>>, <<sA, sB>>}

FieldTypes ==
    {Ident(sString),
     StarExpr(Ident(sInt)),
     SelectorExpr(sIo, sWriter)}

FieldTags ==
    {<<>>,
     <<BasicLit(BackQuote, <<Pair(sEnv, sCustomKey)>>)>>,
     <<BasicLit(BackQuote, <<Pair(sEnv, <<>>)>>)>>,
     <<BasicLit(BackQuote, <<Pair(sJson, sKey)>>)>>,
     <<BasicLit(BackQuote, <<Pair(sJson, sHost), Pair(sEnv, sKey)>>)>>,
     <<BasicLit(DoubleQuote, <<Pair(sEnv, sHostName)>>)>>}

FieldEntries ==
    {FieldEntry(n, ty, tg) : n \in FieldNames, ty \in FieldTypes, tg \in FieldTags}

FieldLists == UNION {[1..n -> FieldEntries] : n \in 0..MaxEntries}

InitFields ==
    /\ ParseIdle
    /\ input \in FieldLists
    /\ output = <<>>

ApplyGetFields ==
    /\ output = <<>>
    /\ output' = <<getFields(StructType(input))>>
    /\ UNCHANGED <<input, parseVars>>

NextFields == ApplyGetFields

SpecFields == InitFields /\ [][NextFields]_vars

-----------------------------------------------------------------------------
(* The syntax tree of a file *)

InterfaceType == [kind |-> "InterfaceType"]
FuncType == [kind |-> "FuncType"]

\* type Name Type, or with assign the alias declaration type Name = Type
TypeSpec(name, assign, type) ==
    [kind |-> "TypeSpec", Name |-> name, Assign |-> assign, Type |-> type]

\* a type declaration holding one TypeSpec
GenDecl(spec) == [kind |-> "GenDecl", Spec |-> spec]

\* a function whose body declares one local type
FuncDecl(decl) == [kind |-> "FuncDecl", Body |-> decl]

\* Host string (tag env:"HOST_NAME"); Port *int; Tags []string
ConfigFields ==
    <<FieldEntry(<<sHost>>, Ident(sString),
                 <<BasicLit(BackQuote, <<Pair(sEnv, sHostName)>>)>>),
      FieldEntry(<<sPort>>, StarExpr(Ident(sInt)), <<>>),
      FieldEntry(<<sTags>>, ArrayType(<<>>, Ident(sString)), <<>>)>>

\* a, b string
GroupFields == <<FieldEntry(<<sA, sB>>, Ident(sString), <<>>)>>

\* io.Writer
EmbeddedFields == <<FieldEntry(<<>>, SelectorExpr(sIo, sWriter), <<>>)>>

Decls ==
    {GenDecl(TypeSpec("X", FALSE, StructType(ConfigFields))),
     GenDecl(TypeSpec("X", FALSE, StructType(GroupFields))),
     GenDecl(TypeSpec("Y", FALSE, StructType(EmbeddedFields))),
     GenDecl(TypeSpec("X", TRUE, StructType(GroupFields))),
     GenDecl(TypeSpec("X", TRUE, Ident(<<"Y">>))),
     GenDecl(TypeSpec("X", FALSE, InterfaceType)),
     GenDecl(TypeSpec("X", FALSE, FuncType)),
     GenDecl(TypeSpec("X", FALSE, Ident(sInt))),
     FuncDecl(GenDecl(TypeSpec("X", FALSE, StructType(EmbeddedFields))))}

Files ==
    {[pkg |-> "config", decls |-> ds] :
        ds \in UNION {[1..n -> Decls] : n \in 0..MaxDecls}}

TypeNames == {"X", "x"}

DiskStates == {"ok", "unreadable", "syntaxerror"}

\* the nodes under one declaration in the order ast.Inspect visits them,
\* each with its depth in the tree (the statement nodes between a function
\* and its local declaration, and the nodes below a type expression, hold
\* no TypeSpec and are left out)
DeclNodes(d) ==
    IF d.kind = "GenDecl"
    THEN <<[node |-> d, depth |-> 1],
           [node |-> d.Spec, depth |-> 2],
           [node |-> d.Spec.Type, depth |-> 3]>>
    ELSE <<[node |-> d, depth |-> 1],
           [node |-> d.Body, depth |-> 2],
           [node |-> d.Body.Spec, depth |-> 3],
           [node |-> d.Body.Spec.Type, depth |-> 4]>>

RECURSIVE DeclsNodes(_)
DeclsNodes(ds) ==
    IF ds = <<>> THEN <<>> ELSE DeclNodes(Head(ds)) \o DeclsNodes(Tail(ds))

\* ast.Inspect(f, ...): the file node, then its declarations depth first
Nodes(f) ==
    <<[node |-> [kind |-> "File", Name |-> f.pkg], depth |-> 0]>>
        \o DeclsNodes(f.decls)

RECURSIVE SkipChildren(_, _, _)
\* the position after the subtree of the node at depth d
SkipChildren(nodes, q, d) ==
    IF q <= Len(nodes) /\ nodes[q].depth > d
    THEN SkipChildren(nodes, q + 1, d)
    ELSE q

\* where ast.Inspect goes after the callback returned descend at position p
NextPos(nodes, p, descend) ==
    IF descend THEN p + 1 ELSE SkipChildren(nodes, p + 1, nodes[p].depth)

-----------------------------------------------------------------------------
(* Type.Parse *)

getStructOrEmpty(nodeType) ==
    IF nodeType.kind = "StructType" THEN <<nodeType>> ELSE <<StructType(<<>>)>>

\* func getStruct(nodeType ast.Node) *ast.StructType; <<>> is nil
getStruct(nodeType) ==
    IF nodeType.kind = "StructType" THEN <<nodeType>> ELSE <<>>

FoldCase(name) == IF name = "x" THEN "X" ELSE name

NameEqualFold(a, b) == FoldCase(a) = FoldCase(b)

\* t.Name == nodeType.Name.String()
NameEqual(a, b) == a = b

\* the error of ioutil.ReadFile(fileName)
ReadFileErr(d) == IF d = "unreadable" THEN "ReadFile error" ELSE "nil"

ParseFileErrIgnored(d) == "nil"

\* the error of parser.ParseFile(fset, fileName, content, parser.ParseComments)
ParseFileErr(d) == IF d = "syntaxerror" THEN "ParseFile error" ELSE "nil"

FoundAppend(tt, f, node) ==
    [tt EXCEPT !.Package = f.pkg, !.Fields = tt.Fields \o getFields(node)]

\* t.Package = f.Name.String(); t.Fields = getFields(node)
Found(tt, f, node) ==
    [tt EXCEPT !.Package = f.pkg, !.Fields = getFields(node)]

\* the callback given to ast.Inspect: the new t and the value returned
Callback(tt, f, node) ==
    IF /\ node.kind = "TypeSpec"
       /\ getStruct(node.Type) # <<>>
       /\ NameEqual(tt.Name, node.Name)
    THEN [t |-> Found(tt, f, getStruct(node.Type)[1]), descend |-> FALSE]
    ELSE [t |-> tt, descend |-> TRUE]

Init ==
    /\ file \in Files
    /\ disk = None
    /\ \E name \in TypeNames : t = NewType(name)
    /\ err = "nil"
    /\ pc = "idle"
    /\ pos = 0
    /\ calls = 0
    /\ prev = <<>>
    /\ input = None
    /\ output = None

\* Parse is called: t.FileName = fileName; the file is as disk' says
Call ==
    /\ pc \in {"idle", "done"}
    /\ calls < MaxCalls
    /\ calls' = calls + 1
    /\ prev' = IF pc = "done" THEN <<[t |-> t, err |-> err, disk |-> disk]>>
               ELSE <<>>
    /\ disk' \in DiskStates
    /\ t' = [t EXCEPT !.FileName = "config.go"]
    /\ pc' = "read"
    /\ UNCHANGED <<file, err, pos, input, output>>

\* content, err := ioutil.ReadFile(fileName); if err != nil { return err }
ReadFileFails ==
    /\ pc = "read"
    /\ ReadFileErr(disk) # "nil"
    /\ err' = ReadFileErr(disk)
    /\ pc' = "done"
    /\ UNCHANGED <<file, disk, t, pos, calls, prev, input, output>>

ReadFileOK ==
    /\ pc = "read"
    /\ ReadFileErr(disk) = "nil"
    /\ pc' = "parse"
    /\ UNCHANGED <<file, disk, t, err, pos, calls, prev, input, output>>

\* f, err := parser.ParseFile(...); if err != nil { return err }
ParseFileFails ==
    /\ pc = "parse"
    /\ ParseFileErr(disk) # "nil"
    /\ err' = ParseFileErr(disk)
    /\ pc' = "done"
    /\ UNCHANGED <<file, disk, t, pos, calls, prev, input, output>>

ParseFileOK ==
    /\ pc = "parse"
    /\ ParseFileErr(disk) = "nil"
    /\ pc' = "inspect"
    /\ pos' = 1
    /\ UNCHANGED <<file, disk, t, err, calls, prev, input, output>>

\* ast.Inspect calls the callback on the next node
Visit ==
    /\ pc = "inspect"
    /\ pos <= Len(Nodes(file))
    /\ LET r == Callback(t, file, Nodes(file)[pos].node)
       IN  /\ t' = r.t
           /\ pos' = NextPos(Nodes(file), pos, r.descend)
    /\ UNCHANGED <<file, disk, err, pc, calls, prev, input, output>>

\* ast.Inspect is through: return nil
Return ==
    /\ pc = "inspect"
    /\ pos > Len(Nodes(file))
    /\ err' = "nil"
    /\ pc' = "done"
    /\ UNCHANGED <<file, disk, t, pos, calls, prev, input, output>>

Next ==
    \/ Call
    \/ ReadFileFails
    \/ ReadFileOK
    \/ ParseFileFails
    \/ ParseFileOK
    \/ Visit
    \/ Return

Spec == Init /\ [][Next]_vars

-----------------------------------------------------------------------------
(* Properties of cleanTypeStr, isPointer and isArray (SpecStr) *)

sStarInt == <<"*">> \o sInt
sSliceString == <<"[", "]">> \o sString
sStarSliceByte == <<"*", "[", "]">> \o sByte
sStarStarInt == <<"*", "*">> \o sInt
sSliceSliceInt == <<"[", "]", "[", "]">> \o sInt
sSliceStarInt == <<"[", "]", "*">> \o sInt

AllIn(s, from, to, set) == \A i \in from..to : s[i] \in set

\* r is s without its surrounding white space, then without the whole run of
\* leading '*', then without the whole run of leading '[' and ']'
StrippedOfAllMarkers(s, r) ==
    \E a \in 0..Len(s), b \in 0..Len(s), c \in 0..Len(s), d \in 0..Len(s) :
        /\ a <= b /\ b <= c /\ c <= d
        /\ AllIn(s, 1, a, WhiteSpace)
        /\ AllIn(s, d + 1, Len(s), WhiteSpace)
        /\ a < d => s[a + 1] \notin WhiteSpace /\ s[d] \notin WhiteSpace
        /\ AllIn(s, a + 1, b, {"*"})
        /\ AllIn(s, b + 1, c, {"[", "]"})
        /\ r = SubSeq(s, c + 1, d)
        /\ r # <<>> => r[1] \notin {"[", "]"} /\ (b = c => r[1] # "*")

\* C1 as amended: cleanTypeStr trims surrounding white space, then removes
\* EVERY leading '*', then removes EVERY leading '[' or ']' character, and
\* nothing else: '*int' -> 'int', '[]string' -> 'string', '*[]byte' -> 'byte',
\* '**int' -> 'int', '[][]int' -> 'int'.
CleanStripsAllMarkers ==
    output # <<>> =>
        LET r == output[1].Type
        IN  /\ StrippedOfAllMarkers(input, r)
            /\ input = sStarInt => r = sInt
            /\ input = sSliceString => r = sString
            /\ input = sStarSliceByte => r = sByte
            /\ input = sStarStarInt => r = sInt
            /\ input = sSliceSliceInt => r = sInt

\* C1 witness: the Field of a '*[]byte' field has Type 'byte'
CleanWitness ==
    /\ output # <<>>
    /\ input = sStarSliceByte
    /\ output[1].Type = sByte

\* C1 as stated: cleanTypeStr removes at most ONE leading '*' and then at
\* most ONE leading '[]' (so '*[]byte' -> '[]byte', '**int' -> '*int')
CleanSinglePass ==
    output # <<>> => output[1].Type = cleanTypeStrOnePass(input)

\* C5: IsPointer and IsArray are computed from the original type string s:
\* IsPointer iff s is non-empty and starts with '*'; IsArray iff len(s) >= 3
\* and s starts with '[]'. A string of length 0, 1 or 2 is never an array;
\* '*[]byte' is a pointer and no array, '[]*int' an array and no pointer.
FlagsFromOriginal ==
    output # <<>> =>
        LET f == output[1]
            s == input
        IN  /\ f.IsPointer <=> (Len(s) > 0 /\ s[1] = "*")
            /\ f.IsArray <=> (Len(s) >= 3 /\ s[1] = "[" /\ s[2] = "]")
            /\ Len(s) <= 2 => ~f.IsArray
            /\ s = sStarSliceByte => f.IsPointer /\ ~f.IsArray
            /\ s = sSliceStarInt => ~f.IsPointer /\ f.IsArray

\* C5 witness: for '[]*int' the flags are those of the original string, and
\* differ from what the cleaned Type '*int' would give
FlagsWitness ==
    /\ output # <<>>
    /\ input = sSliceStarInt
    /\ output[1].IsArray /\ ~output[1].IsPointer
    /\ isPointer(output[1].Type) /\ ~isArray(output[1].Type)

-----------------------------------------------------------------------------
(* Properties of getFields (SpecFields) *)

BlockLen(e) == IF Len(e.Names) = 0 THEN 1 ELSE Len(e.Names)

RECURSIVE TotalLen(_)
TotalLen(list) ==
    IF list = <<>> THEN 0 ELSE BlockLen(Head(list)) + TotalLen(Tail(list))

\* how many records come before those of entry k
Offset(list, k) == TotalLen(SubSeq(list, 1, k - 1))

\* what the tag of entry e denotes has a pair with key env
HasEnv(e) ==
    e.Tag # <<>> /\ \E i \in DOMAIN e.Tag[1].pairs : e.Tag[1].pairs[i].key = sEnv

\* the value of the first pair with key env
EnvValue(e) ==
    LET ps == e.Tag[1].pairs
        i == CHOOSE i \in DOMAIN ps :
                /\ ps[i].key = sEnv
                /\ \A h \in 1..(i - 1) : ps[h].key # sEnv
    IN  ps[i].value

\* C4: getFields returns, in the order of the entries, one block per entry:
\* one record with Name "" for an entry without names, one record per name
\* in the order written otherwise, all with the same Type, IsPointer and
\* IsArray, each with EnvTag from its own name when there is no env sub-key;
\* the length is the sum of max(1, number of names).
FieldsAreBlocks ==
    output # <<>> =>
        LET fs == output[1]
        IN  /\ Len(fs) = TotalLen(input)
            /\ \A k \in DOMAIN input :
                 LET e == input[k]
                     off == Offset(input, k)
                     ty == ExprString(e.Type)
                 IN  /\ \A j \in 1..BlockLen(e) :
                            /\ fs[off + j].Type = cleanTypeStr(ty)
                            /\ fs[off + j].IsPointer = isPointer(ty)
                            /\ fs[off + j].IsArray = isArray(ty)
                     /\ Len(e.Names) = 0 => fs[off + 1].Name = <<>>
                     /\ \A j \in 1..Len(e.Names) :
                            /\ fs[off + j].Name = e.Names[j]
                            /\ ~HasEnv(e) => fs[off + j].EnvTag = ToUpper(e.Names[j])
            /\ input = GroupFields =>
                 fs = <<[Name |-> sA, Type |-> sString, EnvTag |-> <<"A">>,
                         IsPointer |-> FALSE, IsArray |-> FALSE],
                        [Name |-> sB, Type |-> sString, EnvTag |-> <<"B">>,
                         IsPointer |-> FALSE, IsArray |-> FALSE]>>

\* C4 witness: a group of two names followed by an embedded field gives
\* three records, a, b and the nameless one
BlocksWitness ==
    /\ output # <<>>
    /\ Len(input) = 2
    /\ input[1].Names = <<sA, sB>>
    /\ input[2].Names = <<>>
    /\ Len(output[1]) = 3
    /\ output[1][1].Name = sA /\ output[1][2].Name = sB /\ output[1][3].Name = <<>>

\* the EnvTag the specification gives the records of entry e
EnvTagAsSpecified(e, fs, off) ==
    \A j \in 1..BlockLen(e) :
        fs[off + j].EnvTag =
            IF HasEnv(e) THEN EnvValue(e)
            ELSE IF Len(e.Names) = 0 THEN ToUpper(ExprString(e.Type))
            ELSE ToUpper(e.Names[j])

\* C3: a record's EnvTag is the value of the env sub-key of the field's tag
\* when the tag has one, and otherwise the upper-cased field name, or for an
\* embedded field the upper-cased type string as written
EnvTagFromTag ==
    output # <<>> =>
        \A k \in DOMAIN input :
            EnvTagAsSpecified(input[k], output[1], Offset(input, k))

\* C3 holds of every field whose tag is absent or written as a raw string
\* literal; it fails only for a tag written as an interpreted string literal
EnvTagFromRawTag ==
    output # <<>> =>
        \A k \in DOMAIN input :
            (input[k].Tag = <<>> \/ input[k].Tag[1].quote = BackQuote) =>
                /\ EnvTagAsSpecified(input[k], output[1], Offset(input, k))
                /\ (~HasEnv(input[k]) /\ input[k].Names = <<sPort>>) =>
                      output[1][Offset(input, k) + 1].EnvTag = <<"P","O","R","T">>
                /\ (~HasEnv(input[k]) /\ input[k].Names = <<>>
                        /\ input[k].Type = SelectorExpr(sIo, sWriter)) =>
                      output[1][Offset(input, k) + 1].EnvTag =
                          <<"I","O",".","W","R","I","T","E","R">>

-----------------------------------------------------------------------------
(* Properties of Type.Parse (Spec) *)

\* the TypeSpec nodes of f, with their depths, in the order of the walk,
\* that declare name with a struct type as their type expression
StructSpecs(f, name) ==
    SelectSeq(Nodes(f),
              LAMBDA n : /\ n.node.kind = "TypeSpec"
                         /\ n.node.Name = name
                         /\ n.node.Type.kind = "StructType")

\* f declares a type called name, of any kind, at any depth
HasTypeNamed(f, name) ==
    \E i \in DOMAIN Nodes(f) :
        Nodes(f)[i].node.kind = "TypeSpec" /\ Nodes(f)[i].node.Name = name

\* the first call of Parse on a fresh Type has returned, the file being
\* readable and valid
FirstCallDone == pc = "done" /\ calls = 1 /\ disk = "ok"

Unset == t.Fields = <<>> /\ t.Package = ""

\* C2: Package and Fields come from the FIRST struct type named t.Name in
\* document order; no later declaration overwrites them
FirstMatchWins ==
    (FirstCallDone /\ StructSpecs(file, t.Name) # <<>>) =>
        /\ t.Package = file.pkg
        /\ t.Fields = getFields(StructSpecs(file, t.Name)[1].node.Type)

\* what the code does instead: every struct type named t.Name assigns, so
\* the LAST one in the order of the walk is what Parse leaves
LastMatchWins ==
    (FirstCallDone /\ StructSpecs(file, t.Name) # <<>>) =>
        LET ss == StructSpecs(file, t.Name)
        IN  /\ t.Package = file.pkg
            /\ t.Fields = getFields(ss[Len(ss)].node.Type)

\* C6: when the file declares no type named t.Name, Parse returns nil and
\* leaves Fields and Package empty
NotFoundIsSilent ==
    (FirstCallDone /\ ~HasTypeNamed(file, t.Name)) => (err = "nil" /\ Unset)

\* C6 witness: the file declares struct X, Parse looked for x and returned
\* nil with nothing set
NotFoundWitness ==
    /\ FirstCallDone
    /\ t.Name = "x"
    /\ StructSpecs(file, "X") # <<>>
    /\ ~HasTypeNamed(file, t.Name)
    /\ err = "nil" /\ Unset

\* t as it was when the current call was made
Before == IF prev = <<>> THEN NewType(t.Name) ELSE prev[1].t

\* C7: an unreadable or unparsable file makes Parse return that error; the
\* walk never runs and Package and Fields stay as they were before the call
ErrorsLeaveNoPartialResult ==
    /\ pc = "inspect" => disk = "ok"
    /\ pc = "done" =>
        /\ disk = "unreadable" => err = "ReadFile error"
        /\ disk = "syntaxerror" => err = "ParseFile error"
        /\ disk = "ok" => err = "nil"
        /\ err # "nil" =>
            /\ t.Package = Before.Package
            /\ t.Fields = Before.Fields

\* C7 witness: the file declares a struct named t.Name before its syntax
\* error; the first Parse returned the error and set nothing
SyntaxErrorWitness ==
    /\ pc = "done" /\ calls = 1
    /\ disk = "syntaxerror"
    /\ err = "ParseFile error"
    /\ StructSpecs(file, t.Name) # <<>>
    /\ Unset

\* C8: a second Parse of the same file on the same Type leaves the same
\* error, FileName, Name, Package and Fields as the one before it
ParseIsIdempotent ==
    (pc = "done" /\ prev # <<>> /\ prev[1].disk = disk) =>
        (t = prev[1].t /\ err = prev[1].err)

\* C8 witness: two successful calls in a row that found the struct
IdempotentWitness ==
    /\ pc = "done" /\ calls = 2
    /\ disk = "ok" /\ prev[1].disk = "ok"
    /\ t.Fields # <<>>
    /\ t = prev[1].t

\* C9: a struct named t.Name that is not declared at the top level of the
\* file is never matched
OnlyTopLevelMatched ==
    (FirstCallDone /\ \A i \in DOMAIN StructSpecs(file, t.Name) :
                          StructSpecs(file, t.Name)[i].depth # 2) => Unset

\* C10 as stated: a declaration named t.Name that is an alias (even of a
\* struct literal), an interface, a function type or a scalar is skipped
OnlyDefinitionsMatched ==
    (FirstCallDone /\ \A i \in DOMAIN StructSpecs(file, t.Name) :
                          StructSpecs(file, t.Name)[i].node.Assign) => Unset

\* C10 as amended: a declaration named t.Name whose type expression is not a
\* struct literal (an alias of a named type, an interface, a function type, a
\* scalar) assigns nothing and the walk goes on past it; a declaration whose
\* type expression is a struct literal is matched, alias or not
NonStructsSkipped ==
    FirstCallDone =>
        IF StructSpecs(file, t.Name) = <<>>
        THEN Unset
        ELSE /\ t.Package = file.pkg
             /\ \E i \in DOMAIN StructSpecs(file, t.Name) :
                    t.Fields = getFields(StructSpecs(file, t.Name)[i].node.Type)

\* C10 witness: an interface named X comes first, the struct X after it is
\* still found
NonStructWitness ==
    /\ FirstCallDone
    /\ t.Name = "X"
    /\ Len(file.decls) = 2
    /\ file.decls[1] = GenDecl(TypeSpec("X", FALSE, InterfaceType))
    /\ file.decls[2] = GenDecl(TypeSpec("X", FALSE, StructType(ConfigFields)))
    /\ t.Package = "config"
    /\ t.Fields = getFields(StructType(ConfigFields))

=============================================================================
